---- MODULE Spec2Model ----
(***************************************************************************)
(* Covey.Town room service: the per-town controller (players, sessions,   *)
(* listeners, event fan-out), the socket adapter, and the parts of the    *)
(* town store and request handlers that route joins and connections to a  *)
(* controller.                                                             *)
(***************************************************************************)
EXTENDS Integers, Sequences, FiniteSets, TLC

\* ----------------------------------------------------------------- bounds
MaxTowns == 2
MaxPlayers == 2
MaxSockets == 2
MaxLoc == 1

TownIDs == 1..MaxTowns          \* coveyTownID values a client can present
PlayerIDs == 1..MaxPlayers      \* Player.id values, in order of creation
Sockets == 1..MaxSockets        \* socket connections, in order of arrival
Locations == 0..MaxLoc          \* UserLocation values
BadToken == MaxPlayers + 1      \* a session token that no join ever issued
NoTown == MaxTowns + 1          \* "no controller" in a record field
Names == {"a", "b"}             \* friendly names a town can be given
Passwords == 1..(MaxTowns + 1)  \* passwords a caller can present: each town's, and one of no town
GeneratedIDs == 1..MaxTowns     \* the values friendlyNanoID() can return

VARIABLES
  registry,    \* town IDs of the controllers the store currently holds
  created,     \* number of controllers constructed so far
  players,     \* controller -> _players (sequence of player ids)
  sessions,    \* controller -> _sessions (sequence of PlayerSession)
  listeners,   \* controller -> _listeners (sequence of adapters, one per socket)
  location,    \* player id -> Player.location
  joins,       \* player id -> progress of the addPlayer call that created it
  coveyTownID,         \* controller -> _coveyTownID
  friendlyName,        \* controller -> _friendlyName
  isPubliclyListed,    \* controller -> _isPubliclyListed
  townUpdatePassword,  \* controller -> _townUpdatePassword
  sock,        \* socket -> connection state and what its handlers close over
  sent,        \* socket -> events emitted on it by the most recent handler
  last         \* the most recent operation, its inputs and the controller state it found

meta == <<coveyTownID, friendlyName, isPubliclyListed, townUpdatePassword>>

vars == <<registry, created, players, sessions, listeners, location, joins, meta, sock, sent, last>>

\* ---------------------------------------------------------------- helpers
Range(seq) == {seq[i] : i \in DOMAIN seq}

Count(seq, x) == Cardinality({i \in DOMAIN seq : seq[i] = x})

NoEvents == [s \in Sockets |-> <<>>]

NoSession == [sessionToken |-> BadToken, player |-> 0]

EmptyTown == [players |-> <<>>, sessions |-> <<>>, listeners |-> <<>>]

Snapshot(t) == [players |-> players[t], sessions |-> sessions[t], listeners |-> listeners[t]]

Op(op, s, tid, t, tok, p, loc, pre) ==
  [op |-> op, socket |-> s, townID |-> tid, town |-> t, token |-> tok,
   player |-> p, loc |-> loc, pre |-> pre]

\* new PlayerSession(newPlayer): a fresh token bound to the player
PlayerSession(p) == [sessionToken |-> p, player |-> p]

\* what socket.emit(name, player) puts on the wire: the player as it is now
PlayerEvent(type, p, loc) == [type |-> type, player |-> p, loc |-> loc]

\* _listeners.forEach(listener => listener.onX(...)): one call per entry of the list
forEachListener(ls, ev) == [s \in Sockets |-> [i \in 1..Count(ls, s) |-> ev]]

\* townSocketAdapter: each listener method is one socket.emit
onPlayerMoved(ls, p, loc) == forEachListener(ls, PlayerEvent("playerMoved", p, loc))

onPlayerDisconnected(ls, p, loc) == forEachListener(ls, PlayerEvent("playerDisconnect", p, loc))

onPlayerJoined(ls, p, loc) == forEachListener(ls, PlayerEvent("newPlayer", p, loc))

\* passwordMatches
passwordMatches(provided, expected) == provided = expected

\* get occupancy()
occupancy_players(t) == Len(players[t])

occupancy(t) == Len(listeners[t])

\* ------------------------------------------------------------------- Init
Init ==
  /\ registry = {}
  /\ created = 0
  /\ players = [t \in TownIDs |-> <<>>]
  /\ sessions = [t \in TownIDs |-> <<>>]
  /\ listeners = [t \in TownIDs |-> <<>>]
  /\ location = [p \in PlayerIDs |-> 0]
  /\ joins = [p \in PlayerIDs |->
                [state |-> "none", town |-> NoTown, videoToken |-> <<>>, requests |-> <<>>]]
  /\ coveyTownID = [t \in TownIDs |-> NoTown]
  /\ friendlyName = [t \in TownIDs |-> ""]
  /\ isPubliclyListed = [t \in TownIDs |-> FALSE]
  /\ townUpdatePassword = [t \in TownIDs |-> NoTown]
  /\ sock = [s \in Sockets |->
               [status |-> "idle", town |-> NoTown, session |-> NoSession, handlers |-> FALSE]]
  /\ sent = NoEvents
  /\ last = Op("init", 0, NoTown, NoTown, BadToken, 0, 0, EmptyTown)

\* ------------------------------------------------------ CoveyTownController
\* constructor of the t-th controller, with id the value friendlyNanoID() returns
NewController(t, id, name, pub) ==
  /\ coveyTownID' = [coveyTownID EXCEPT ![t] = id]
  /\ townUpdatePassword' = [townUpdatePassword EXCEPT ![t] = t]
  /\ isPubliclyListed' = [isPubliclyListed EXCEPT ![t] = pub]
  /\ friendlyName' = [friendlyName EXCEPT ![t] = name]
  /\ players' = [players EXCEPT ![t] = <<>>]
  /\ sessions' = [sessions EXCEPT ![t] = <<>>]
  /\ listeners' = [listeners EXCEPT ![t] = <<>>]

\* the arguments of one _videoClient.getTokenForTown call
TokenRequest(townID, playerID) == [townID |-> townID, playerID |-> playerID]

\* the video client: the token it provisions for a request
getTokenForTown(request) == <<request.townID, request.playerID>>

\* addPlayer up to the await: the session and the player are pushed, the video
\* token is requested, nothing is emitted
addPlayer_broadcastFirst(t, p) ==
  /\ sessions' = [sessions EXCEPT ![t] = Append(@, PlayerSession(p))]
  /\ players' = [players EXCEPT ![t] = Append(@, p)]
  /\ joins' = [joins EXCEPT ![p] = [state |-> "pending", town |-> t, videoToken |-> <<>>,
                                    requests |-> <<TokenRequest(coveyTownID[t], p)>>]]
  /\ sent' = onPlayerJoined(listeners[t], p, location[p])

addPlayer_playerOnly(t, p) ==
  /\ UNCHANGED sessions
  /\ players' = [players EXCEPT ![t] = Append(@, p)]
  /\ joins' = [joins EXCEPT ![p] = [state |-> "pending", town |-> t, videoToken |-> <<>>,
                                    requests |-> <<TokenRequest(coveyTownID[t], p)>>]]
  /\ sent' = NoEvents

addPlayer_sessionOnly(t, p) ==
  /\ sessions' = [sessions EXCEPT ![t] = Append(@, PlayerSession(p))]
  /\ UNCHANGED players
  /\ joins' = [joins EXCEPT ![p] = [state |-> "pending", town |-> t, videoToken |-> <<>>,
                                    requests |-> <<TokenRequest(coveyTownID[t], p)>>]]
  /\ sent' = NoEvents

addPlayer_swappedArguments(t, p) ==
  /\ sessions' = [sessions EXCEPT ![t] = Append(@, PlayerSession(p))]
  /\ players' = [players EXCEPT ![t] = Append(@, p)]
  /\ joins' = [joins EXCEPT ![p] = [state |-> "pending", town |-> t, videoToken |-> <<>>,
                                    requests |-> <<TokenRequest(p, coveyTownID[t])>>]]
  /\ sent' = NoEvents

addPlayer(t, p) ==
  /\ sessions' = [sessions EXCEPT ![t] = Append(@, PlayerSession(p))]
  /\ players' = [players EXCEPT ![t] = Append(@, p)]
  /\ joins' = [joins EXCEPT ![p] = [state |-> "pending", town |-> t, videoToken |-> <<>>,
                                    requests |-> <<TokenRequest(coveyTownID[t], p)>>]]
  /\ sent' = NoEvents

\* addPlayer after the await resolved: the token is stored in the session, every
\* listener registered now is told, the session is returned
addPlayerResume(t, p) ==
  /\ joins' = [joins EXCEPT ![p].state = "resolved",
                            ![p].videoToken = getTokenForTown(Head(joins[p].requests))]
  /\ sent' = onPlayerJoined(listeners[t], p, location[p])

\* addPlayer after the await rejected: the exception leaves the function
addPlayerThrow_notifyAnyway(t, p) ==
  /\ joins' = [joins EXCEPT ![p].state = "rejected"]
  /\ sent' = onPlayerJoined(listeners[t], p, location[p])

addPlayerThrow(t, p) ==
  /\ joins' = [joins EXCEPT ![p].state = "rejected"]
  /\ sent' = NoEvents

\* onPlayerMovement
onPlayerMovement_stale(t, p, loc) ==
  /\ sent' = onPlayerMoved(listeners[t], p, location[p])
  /\ location' = [location EXCEPT ![p] = loc]

onPlayerMovement_movesTown(t, p, loc) ==
  /\ location' = [q \in PlayerIDs |-> IF q \in Range(players[t]) THEN loc ELSE location[q]]
  /\ sent' = onPlayerMoved(listeners[t], p, location'[p])

onPlayerMovement_noEcho(t, p, loc) ==
  /\ location' = [location EXCEPT ![p] = loc]
  /\ sent' = onPlayerMoved(SelectSeq(listeners[t], LAMBDA s : sock[s].session.player # p),
                           p, location'[p])

onPlayerMovement(t, p, loc) ==
  /\ location' = [location EXCEPT ![p] = loc]
  /\ sent' = onPlayerMoved(listeners[t], p, location'[p])

\* update: the outcome for a password, an optional friendly name and an optional
\* visibility (an absent argument is the empty set, a given one a singleton): the
\* return value and the two fields afterwards
updateOutcome_noPasswordCheck(t, pw, name, pub) ==
  LET emptyName == name # {} /\ (CHOOSE n \in name : TRUE) = ""
      result == ~emptyName
  IN [result |-> result,
      friendlyName |-> IF name # {} /\ ~emptyName
                         THEN CHOOSE n \in name : TRUE ELSE friendlyName[t],
      isPubliclyListed |-> IF result /\ pub # {}
                             THEN CHOOSE v \in pub : TRUE ELSE isPubliclyListed[t]]

updateOutcome_visibilityAnyway(t, pw, name, pub) ==
  LET matches == passwordMatches(pw, townUpdatePassword[t])
      emptyName == name # {} /\ (CHOOSE n \in name : TRUE) = ""
      result == matches /\ ~emptyName
  IN [result |-> result,
      friendlyName |-> IF matches /\ name # {} /\ ~emptyName
                         THEN CHOOSE n \in name : TRUE ELSE friendlyName[t],
      isPubliclyListed |-> IF matches /\ pub # {}
                             THEN CHOOSE v \in pub : TRUE ELSE isPubliclyListed[t]]

updateOutcome_visibilityNeedsName(t, pw, name, pub) ==
  LET matches == passwordMatches(pw, townUpdatePassword[t])
      emptyName == name # {} /\ (CHOOSE n \in name : TRUE) = ""
      result == matches /\ ~emptyName
  IN [result |-> result,
      friendlyName |-> IF matches /\ name # {} /\ ~emptyName
                         THEN CHOOSE n \in name : TRUE ELSE friendlyName[t],
      isPubliclyListed |-> IF result /\ name # {} /\ pub # {}
                             THEN CHOOSE v \in pub : TRUE ELSE isPubliclyListed[t]]

updateOutcome(t, pw, name, pub) ==
  LET matches == passwordMatches(pw, townUpdatePassword[t])
      emptyName == name # {} /\ (CHOOSE n \in name : TRUE) = ""
      result == matches /\ ~emptyName
  IN [result |-> result,
      friendlyName |-> IF matches /\ name # {} /\ ~emptyName
                         THEN CHOOSE n \in name : TRUE ELSE friendlyName[t],
      isPubliclyListed |-> IF result /\ pub # {}
                             THEN CHOOSE v \in pub : TRUE ELSE isPubliclyListed[t]]

\* addTownListener / removeTownListener
addTownListener(ls, l) == Append(ls, l)

removeTownListener_noop(ls, l) == ls

removeTownListener(ls, l) == SelectSeq(ls, LAMBDA v : v # l)

\* socket.disconnect(true) on a socket that has no handlers installed
socketDisconnect(s) ==
  sock' = [sock EXCEPT ![s] = [status |-> "closed", town |-> NoTown,
                               session |-> NoSession, handlers |-> FALSE]]

\* _sessions.find(p => p.sessionToken === sessionToken): the indexes that match
findSession(t, tok) == {i \in DOMAIN sessions[t] : sessions[t][i].sessionToken = tok}

\* connect
connect_registerFirst(t, tok, s) ==
  LET found == findSession(t, tok) IN
  /\ sent' = NoEvents
  /\ listeners' = [listeners EXCEPT ![t] = addTownListener(@, s)]
  /\ IF found = {}
       THEN socketDisconnect(s)
       ELSE LET session == sessions[t][CHOOSE i \in found : \A j \in found : i <= j] IN
            sock' = [sock EXCEPT ![s] = [status |-> "open", town |-> t,
                                         session |-> session, handlers |-> TRUE]]

connect_explainsRejection(t, tok, s) ==
  LET found == findSession(t, tok) IN
  /\ IF found = {}
       THEN /\ socketDisconnect(s)
            /\ sent' = [NoEvents EXCEPT ![s] = <<PlayerEvent("invalidSession", 0, 0)>>]
            /\ UNCHANGED listeners
       ELSE LET session == sessions[t][CHOOSE i \in found : \A j \in found : i <= j] IN
            /\ sent' = NoEvents
            /\ listeners' = [listeners EXCEPT ![t] = addTownListener(@, s)]
            /\ sock' = [sock EXCEPT ![s] = [status |-> "open", town |-> t,
                                            session |-> session, handlers |-> TRUE]]

connect(t, tok, s) ==
  LET found == findSession(t, tok) IN
  /\ sent' = NoEvents
  /\ IF found = {}
       THEN /\ socketDisconnect(s)
            /\ UNCHANGED listeners
       ELSE LET session == sessions[t][CHOOSE i \in found : \A j \in found : i <= j] IN
            /\ listeners' = [listeners EXCEPT ![t] = addTownListener(@, s)]
            /\ sock' = [sock EXCEPT ![s] = [status |-> "open", town |-> t,
                                            session |-> session, handlers |-> TRUE]]

\* onDisconnect
onDisconnect_notifyFirst(t, s, session) ==
  /\ sent' = onPlayerDisconnected(listeners[t], session.player, location[session.player])
  /\ listeners' = [listeners EXCEPT ![t] = removeTownListener(@, s)]
  /\ players' = [players EXCEPT ![t] = SelectSeq(@, LAMBDA p : p # session.player)]
  /\ sessions' = [sessions EXCEPT ![t] =
                    SelectSeq(@, LAMBDA x : x.sessionToken # session.sessionToken)]

onDisconnect_announcesNewest(t, s, session) ==
  /\ listeners' = [listeners EXCEPT ![t] = removeTownListener(@, s)]
  /\ players' = [players EXCEPT ![t] = SelectSeq(@, LAMBDA p : p # session.player)]
  /\ sessions' = [sessions EXCEPT ![t] =
                    SelectSeq(@, LAMBDA x : x.sessionToken # session.sessionToken)]
  /\ LET gone == IF players[t] = <<>> THEN session.player ELSE players[t][Len(players[t])]
     IN sent' = onPlayerDisconnected(listeners'[t], gone, location[gone])

onDisconnect_keepPlayer(t, s, session) ==
  /\ listeners' = [listeners EXCEPT ![t] = removeTownListener(@, s)]
  /\ UNCHANGED players
  /\ sessions' = [sessions EXCEPT ![t] =
                    SelectSeq(@, LAMBDA x : x.sessionToken # session.sessionToken)]
  /\ sent' = onPlayerDisconnected(listeners'[t], session.player, location[session.player])

onDisconnect_keepSession(t, s, session) ==
  /\ listeners' = [listeners EXCEPT ![t] = removeTownListener(@, s)]
  /\ players' = [players EXCEPT ![t] = SelectSeq(@, LAMBDA p : p # session.player)]
  /\ UNCHANGED sessions
  /\ sent' = onPlayerDisconnected(listeners'[t], session.player, location[session.player])

onDisconnect(t, s, session) ==
  /\ listeners' = [listeners EXCEPT ![t] = removeTownListener(@, s)]
  /\ players' = [players EXCEPT ![t] = SelectSeq(@, LAMBDA p : p # session.player)]
  /\ sessions' = [sessions EXCEPT ![t] =
                    SelectSeq(@, LAMBDA x : x.sessionToken # session.sessionToken)]
  /\ sent' = onPlayerDisconnected(listeners'[t], session.player, location[session.player])

\* what socket.emit('townClosing') puts on the wire
TownClosing == PlayerEvent("townClosing", 0, 0)

\* the part of the state one run of disconnectAllPlayers works on
Working(t) == [players |-> players[t], sessions |-> sessions[t], listeners |-> listeners[t],
               sent |-> NoEvents, sock |-> sock]

\* the 'disconnect' handler run while disconnectAllPlayers is still iterating:
\* onDisconnect on the controller's current lists
onDisconnectDuring(c, l) ==
  LET session == c.sock[l].session
      ls == removeTownListener(c.listeners, l)
      out == onPlayerDisconnected(ls, session.player, location[session.player])
  IN [c EXCEPT !.listeners = ls,
               !.players = SelectSeq(@, LAMBDA p : p # session.player),
               !.sessions = SelectSeq(@, LAMBDA x : x.sessionToken # session.sessionToken),
               !.sent = [s \in Sockets |-> c.sent[s] \o out[s]],
               !.sock[l].status = "closed"]

\* townSocketAdapter.onTownDestroyed: emit townClosing, then socket.disconnect(true).
\* The transport either runs the socket's 'disconnect' handler before
\* disconnect(true) returns (inline) or leaves the socket closing and runs the
\* handler in a later turn.
onTownDestroyed(c, l, inline) ==
  LET c1 == [c EXCEPT !.sent[l] = Append(@, TownClosing)]
  IN IF c1.sock[l].status # "open"
       THEN c1
       ELSE IF inline
              THEN onDisconnectDuring(c1, l)
              ELSE [c1 EXCEPT !.sock[l].status = "closing"]

\* disconnectAllPlayers: forEach over the listener array as it was at the call
RECURSIVE destroyEach(_, _, _)
destroyEach(todo, c, inline) ==
  IF todo = <<>>
    THEN c
    ELSE destroyEach(Tail(todo), onTownDestroyed(c, Head(todo), inline), inline)

disconnectAllPlayers_skipFirst(t, inline) ==
  LET c == destroyEach(SubSeq(listeners[t], 2, Len(listeners[t])), Working(t), inline) IN
  /\ players' = [players EXCEPT ![t] = c.players]
  /\ sessions' = [sessions EXCEPT ![t] = c.sessions]
  /\ listeners' = [listeners EXCEPT ![t] = c.listeners]
  /\ sock' = c.sock
  /\ sent' = c.sent

disconnectAllPlayers(t, inline) ==
  LET c == destroyEach(listeners[t], Working(t), inline) IN
  /\ players' = [players EXCEPT ![t] = c.players]
  /\ sessions' = [sessions EXCEPT ![t] = c.sessions]
  /\ listeners' = [listeners EXCEPT ![t] = c.listeners]
  /\ sock' = c.sock
  /\ sent' = c.sent

\* ------------------------------------------------- store and request handlers
\* the record of a store operation: its inputs, its result, the town as it was
StoreOp(op, tid, pw, name, pub, result, pre) ==
  [op |-> op, townID |-> tid, password |-> pw, friendlyName |-> name, makePublic |-> pub,
   result |-> result, pre |-> pre]

\* deleteTown: the town must be in the store and the password must be its own
deleteTownAllowed_anyPassword(tid, pw) == tid \in registry

deleteTownAllowed(tid, pw) ==
  /\ tid \in registry
  /\ passwordMatches(pw, townUpdatePassword[tid])

\* townSubscriptionHandler: resolve the town the handshake names, then connect
townSubscriptionHandler_anyTown(s, tid, tok) ==
  IF tid \in registry
    THEN connect(tid, tok, s)
    ELSE IF \E t \in registry : findSession(t, tok) # {}
           THEN connect(CHOOSE t \in registry : findSession(t, tok) # {}, tok, s)
           ELSE /\ socketDisconnect(s)
                /\ sent' = NoEvents
                /\ UNCHANGED listeners

townSubscriptionHandler(s, tid, tok) ==
  IF tid \in registry
    THEN connect(tid, tok, s)
    ELSE /\ socketDisconnect(s)
         /\ sent' = NoEvents
         /\ UNCHANGED listeners

\* the tokens a client can know: those a completed join returned
IssuedTokens == {PlayerSession(p).sessionToken : p \in {q \in PlayerIDs : joins[q].state = "resolved"}}

\* the tokens of all sessions the controllers hold, returned to a client or not
LiveTokens == UNION {{sessions[t][i].sessionToken : i \in DOMAIN sessions[t]} : t \in TownIDs}

NextPlayer == Cardinality({p \in PlayerIDs : joins[p].state # "none"}) + 1

NextSocket == Cardinality({s \in Sockets : sock[s].status # "idle"}) + 1

\* ---------------------------------------------------------------- actions
\* createTown, the generated town IDs named in the order they are generated
CreateTown(name, pub) ==
  /\ created < MaxTowns
  /\ LET t == created + 1 IN
     /\ NewController(t, t, name, pub)
     /\ registry' = registry \cup {t}
     /\ created' = t
     /\ sent' = NoEvents
     /\ last' = Op("createTown", 0, t, t, BadToken, 0, 0, EmptyTown)
  /\ UNCHANGED <<location, joins, sock>>

\* townJoinHandler on a town the store holds: addPlayer starts
JoinTown(tid) ==
  /\ NextPlayer <= MaxPlayers
  /\ tid \in registry
  /\ addPlayer(tid, NextPlayer)
  /\ last' = Op("join", 0, tid, tid, BadToken, NextPlayer, 0, Snapshot(tid))
  /\ UNCHANGED <<registry, created, listeners, location, sock, meta>>

\* townJoinHandler on a town the store does not hold: the join is refused
JoinUnknownTown(tid) ==
  /\ tid \notin registry
  /\ sent' = NoEvents
  /\ last' = Op("joinRefused", 0, tid, NoTown, BadToken, 0, 0, EmptyTown)
  /\ UNCHANGED <<registry, created, players, sessions, listeners, location, joins, sock, meta>>

\* the video client's promise resolves
VideoTokenResolved(p) ==
  /\ joins[p].state = "pending"
  /\ addPlayerResume(joins[p].town, p)
  /\ last' = Op("joinResolve", 0, joins[p].town, joins[p].town, BadToken, p, 0,
                Snapshot(joins[p].town))
  /\ UNCHANGED <<registry, created, players, sessions, listeners, location, sock, meta>>

\* the video client's promise rejects
VideoTokenRejected(p) ==
  /\ joins[p].state = "pending"
  /\ addPlayerThrow(joins[p].town, p)
  /\ last' = Op("joinReject", 0, joins[p].town, joins[p].town, BadToken, p, 0,
                Snapshot(joins[p].town))
  /\ UNCHANGED <<registry, created, players, sessions, listeners, location, sock, meta>>

\* a new socket arrives with a town ID and a session token in its handshake
Connect(s, tid, tok) ==
  /\ s = NextSocket
  /\ townSubscriptionHandler(s, tid, tok)
  /\ last' = Op("connect", s, tid, IF tid \in registry THEN tid ELSE NoTown, tok, 0, 0,
                IF tid \in registry THEN Snapshot(tid) ELSE EmptyTown)
  /\ UNCHANGED <<registry, created, players, sessions, location, joins, meta>>

\* the 'playerMovement' handler of an authenticated socket
PlayerMovement(s, loc) ==
  /\ sock[s].status = "open"
  /\ sock[s].handlers
  /\ onPlayerMovement(sock[s].town, sock[s].session.player, loc)
  /\ last' = Op("playerMovement", s, sock[s].town, sock[s].town, sock[s].session.sessionToken,
                sock[s].session.player, loc, Snapshot(sock[s].town))
  /\ UNCHANGED <<registry, created, players, sessions, listeners, joins, sock, meta>>

\* the 'disconnect' handler of an authenticated socket
Disconnect(s) ==
  /\ sock[s].status \in {"open", "closing"}
  /\ sock[s].handlers
  /\ onDisconnect(sock[s].town, s, sock[s].session)
  /\ sock' = [sock EXCEPT ![s].status = "closed"]
  /\ last' = Op("disconnect", s, sock[s].town, sock[s].town, sock[s].session.sessionToken,
                sock[s].session.player, 0, Snapshot(sock[s].town))
  /\ UNCHANGED <<registry, created, location, joins, meta>>

\* deleteTown with the town's password: every listener is told and
\* disconnected, the town leaves the store
DeleteTown(tid, pw, inline) ==
  /\ deleteTownAllowed(tid, pw)
  /\ disconnectAllPlayers(tid, inline)
  /\ registry' = registry \ {tid}
  /\ last' = StoreOp("deleteTown", tid, pw, {}, {}, TRUE, Snapshot(tid))
  /\ UNCHANGED <<created, location, joins, meta>>

\* deleteTown on an unknown town or with another password: false
DeleteTownRefused(tid, pw) ==
  /\ ~deleteTownAllowed(tid, pw)
  /\ sent' = NoEvents
  /\ last' = StoreOp("deleteTown", tid, pw, {}, {}, FALSE, EmptyTown)
  /\ UNCHANGED <<registry, created, players, sessions, listeners, location, joins, meta, sock>>

Next ==
  \/ \E name \in {"a"}, pub \in {FALSE} : CreateTown(name, pub)
  \/ \E tid \in TownIDs : JoinTown(tid)
  \/ \E tid \in TownIDs : JoinUnknownTown(tid)
  \/ \E p \in PlayerIDs : VideoTokenResolved(p)
  \/ \E p \in PlayerIDs : VideoTokenRejected(p)
  \/ \E s \in Sockets, tid \in TownIDs, tok \in IssuedTokens \cup {BadToken} : Connect(s, tid, tok)
  \/ \E s \in Sockets, loc \in Locations : PlayerMovement(s, loc)
  \/ \E s \in Sockets : Disconnect(s)

\* joins, connections, movement and disconnections in towns that are never deleted
Spec == Init /\ [][Next]_vars

\* the same with connections that present the token of any session a controller
\* holds, also one whose join has not returned yet
NextAnyToken ==
  \/ Next
  \/ \E s \in Sockets, tid \in TownIDs, tok \in LiveTokens : Connect(s, tid, tok)

SpecAnyToken == Init /\ [][NextAnyToken]_vars

\* the same with a transport that may deliver 'disconnect' to a socket's handler
\* again after the socket is closed
DisconnectAgain(s) ==
  /\ sock[s].status = "closed"
  /\ sock[s].handlers
  /\ onDisconnect(sock[s].town, s, sock[s].session)
  /\ last' = Op("disconnectAgain", s, sock[s].town, sock[s].town, sock[s].session.sessionToken,
                sock[s].session.player, 0, Snapshot(sock[s].town))
  /\ UNCHANGED <<registry, created, location, joins, meta, sock>>

NextRepeat ==
  \/ Next
  \/ \E s \in Sockets : DisconnectAgain(s)

SpecRepeat == Init /\ [][NextRepeat]_vars

\* the same with the store's deleteTown, and towns created public or private
NextTown ==
  \/ Next
  \/ \E name \in {"a"}, pub \in BOOLEAN : CreateTown(name, pub)
  \/ \E tid \in TownIDs, pw \in Passwords, inline \in BOOLEAN : DeleteTown(tid, pw, inline)
  \/ \E tid \in TownIDs, pw \in Passwords : DeleteTownRefused(tid, pw)

SpecTown == Init /\ [][NextTown]_vars

\* updateTown on a town of the store: the controller's update
UpdateTown(tid, pw, name, pub) ==
  /\ tid \in registry
  /\ LET out == updateOutcome(tid, pw, name, pub) IN
     /\ friendlyName' = [friendlyName EXCEPT ![tid] = out.friendlyName]
     /\ isPubliclyListed' = [isPubliclyListed EXCEPT ![tid] = out.isPubliclyListed]
     /\ last' = StoreOp("updateTown", tid, pw, name, pub, out.result,
                        [friendlyName |-> friendlyName[tid],
                         isPubliclyListed |-> isPubliclyListed[tid]])
  /\ sent' = NoEvents
  /\ UNCHANGED <<registry, created, players, sessions, listeners, location, joins,
                 coveyTownID, townUpdatePassword, sock>>

\* updateTown on a town the store does not hold: false
UpdateUnknownTown(tid, pw, name, pub) ==
  /\ tid \notin registry
  /\ sent' = NoEvents
  /\ last' = StoreOp("updateTown", tid, pw, name, pub, FALSE,
                     [friendlyName |-> friendlyName[tid],
                      isPubliclyListed |-> isPubliclyListed[tid]])
  /\ UNCHANGED <<registry, created, players, sessions, listeners, location, joins, meta, sock>>

\* the arguments an update can carry: absent, or a value (the empty name included)
OptionalNames == {{}} \cup {{n} : n \in Names \cup {""}}

OptionalFlags == {{}, {TRUE}, {FALSE}}

\* the store's operations on town metadata, in towns nobody joins
NextMeta ==
  \/ \E name \in Names, pub \in BOOLEAN : CreateTown(name, pub)
  \/ \E tid \in TownIDs, pw \in Passwords, name \in OptionalNames, pub \in OptionalFlags :
       UpdateTown(tid, pw, name, pub)
  \/ \E tid \in TownIDs, pw \in Passwords, name \in OptionalNames, pub \in OptionalFlags :
       UpdateUnknownTown(tid, pw, name, pub)
  \/ \E tid \in TownIDs, pw \in Passwords : DeleteTown(tid, pw, TRUE)

SpecMeta == Init /\ [][NextMeta]_vars

\* the town IDs of the towns the store holds
LiveIDs == {coveyTownID[t] : t \in registry}

\* createTown registers a controller only under an ID no live town has
createTownRegisters_unchecked(id) == TRUE

createTownRegisters(id) == id \notin LiveIDs

\* createTown with a generated ID that may repeat an earlier one
CreateTownGenerated(id, name, pub) ==
  /\ created < MaxTowns
  /\ createTownRegisters(id)
  /\ LET t == created + 1 IN
     /\ NewController(t, id, name, pub)
     /\ registry' = registry \cup {t}
     /\ created' = t
     /\ sent' = NoEvents
     /\ last' = Op("createTown", 0, id, t, BadToken, 0, 0, EmptyTown)
  /\ UNCHANGED <<location, joins, sock>>

\* createTown whose generated ID is a live town's: the controller is dropped
\* and the ID is generated again
CreateTownCollision(id, name, pub) ==
  /\ ~createTownRegisters(id)
  /\ sent' = NoEvents
  /\ last' = Op("createTownCollision", 0, id, NoTown, BadToken, 0, 0, EmptyTown)
  /\ UNCHANGED <<registry, created, players, sessions, listeners, location, joins, meta, sock>>

\* town creation with generated IDs, joins, and deletion
NextIDs ==
  \/ \E id \in GeneratedIDs, name \in Names, pub \in BOOLEAN : CreateTownGenerated(id, name, pub)
  \/ \E id \in GeneratedIDs, name \in Names, pub \in BOOLEAN : CreateTownCollision(id, name, pub)
  \/ \E t \in TownIDs : JoinTown(t)
  \/ \E p \in PlayerIDs : VideoTokenResolved(p)
  \/ \E p \in PlayerIDs : VideoTokenRejected(p)
  \/ \E t \in TownIDs, pw \in Passwords : DeleteTown(t, pw, TRUE)

SpecIDs == Init /\ [][NextIDs]_vars

\* ----------------------------------------------------------------- claims
Registered(t) == Range(listeners[t])

Tokens(ss) == {ss[i].sessionToken : i \in DOMAIN ss}

EventsOfType(s, type) == {i \in DOMAIN sent[s] : sent[s][i].type = type}

NothingSent == \A s \in Sockets : sent[s] = <<>>

\* the tokens whose authenticated connection has disconnected
ConsumedTokens == {sock[s].session.sessionToken :
                     s \in {x \in Sockets : sock[x].status = "closed" /\ sock[x].handlers}}

\* C1: after a movement update from socket A, every other socket registered in
\* the same town has received exactly one playerMoved event, carrying A's player
\* at the new location.
C1_MovementReachesOthers ==
  last.op = "playerMovement" =>
    \A s \in Registered(last.town) \ {last.socket} :
      sent[s] = <<PlayerEvent("playerMoved", last.player, last.loc)>>

C1_Witness ==
  /\ last.op = "playerMovement"
  /\ last.loc # 0
  /\ \E s \in Registered(last.town) \ {last.socket} :
       /\ sock[s].session.player # last.player
       /\ sent[s] = <<PlayerEvent("playerMoved", last.player, last.loc)>>

\* C2 as stated: after a movement update from socket A, A's own socket has
\* received no playerMoved event.
C2_NoEchoToSender ==
  last.op = "playerMovement" => EventsOfType(last.socket, "playerMoved") = {}

\* C2 amended: after a movement update from socket A, A's own socket has
\* received exactly one playerMoved event, carrying A's player at the new
\* location, like every other registered listener.
C2_SenderReceivesEcho ==
  last.op = "playerMovement" =>
    sent[last.socket] = <<PlayerEvent("playerMoved", last.player, last.loc)>>

C2_Witness ==
  /\ last.op = "playerMovement"
  /\ last.loc # 0
  /\ Len(sent[last.socket]) = 1
  /\ Cardinality(Registered(last.town)) > 1

\* C3: after socket A's disconnect, every listener still registered in the town
\* has received exactly one playerDisconnect event carrying A's player, and A's
\* own socket has received none.
C3_DisconnectReachesRemaining ==
  last.op = "disconnect" =>
    /\ \A s \in Registered(last.town) :
         sent[s] = <<PlayerEvent("playerDisconnect", last.player, location[last.player])>>
    /\ EventsOfType(last.socket, "playerDisconnect") = {}

C3_Witness ==
  /\ last.op = "disconnect"
  /\ \E s \in Registered(last.town) :
       /\ sock[s].session.player # last.player
       /\ Len(sent[s]) = 1
  /\ sent[last.socket] = <<>>

\* C4: onDisconnect leaves the town's players, sessions and listeners equal to
\* what they were before the call minus A's player, A's session and A's
\* listener: nothing else is removed and nothing is added.
C4_DisconnectRemovesExactlyA ==
  last.op = "disconnect" =>
    /\ Range(players[last.town]) = Range(last.pre.players) \ {last.player}
    /\ Tokens(sessions[last.town]) = Tokens(last.pre.sessions) \ {last.token}
    /\ Range(sessions[last.town]) \subseteq Range(last.pre.sessions)
    /\ Range(listeners[last.town]) = Range(last.pre.listeners) \ {last.socket}

C4_Witness ==
  /\ last.op = "disconnect"
  /\ last.player \in Range(last.pre.players)
  /\ last.token \in Tokens(last.pre.sessions)
  /\ players[last.town] # <<>>
  /\ sessions[last.town] # <<>>
  /\ listeners[last.town] # <<>>

\* C5: a connection attempt that presents a token whose connection has already
\* disconnected is terminated without a listener or a handler, and no town
\* holds a session with such a token.
C5_ConsumedTokenRejected ==
  /\ \A t \in TownIDs : Tokens(sessions[t]) \cap ConsumedTokens = {}
  /\ (last.op = "connect" /\ last.token \in ConsumedTokens) =>
       /\ sock[last.socket].status = "closed"
       /\ ~sock[last.socket].handlers
       /\ \A t \in TownIDs : last.socket \notin Registered(t)

C5_Witness ==
  /\ last.op = "connect"
  /\ last.token \in ConsumedTokens
  /\ last.townID \in registry
  /\ \E s \in Sockets : /\ sock[s].status = "closed"
                        /\ sock[s].handlers
                        /\ sock[s].town = last.townID
                        /\ sock[s].session.sessionToken = last.token
  /\ sock[last.socket].status = "closed"

\* C6: no session has more than one registered listener.
C6_OneListenerPerSession ==
  \A t \in TownIDs : \A s1, s2 \in Registered(t) :
    sock[s1].session.sessionToken = sock[s2].session.sessionToken => s1 = s2

\* C7: the occupancy of every town is the number of connections that were
\* registered as listeners of it and have not been deregistered, whatever the
\* number of its players.
C7_OccupancyCountsListeners ==
  \A t \in TownIDs :
    occupancy(t) = Cardinality({s \in Sockets : /\ sock[s].status \in {"open", "closing"}
                                                 /\ sock[s].town = t})

C7_Witness ==
  \E t \in TownIDs : /\ occupancy(t) > 0
                     /\ Len(players[t]) > occupancy(t)

\* C8: a connection that names a town of the registry with a token of none of
\* its sessions is terminated: no listener, no handler, no event to anyone, and
\* the town's players, sessions and listeners are as before.
C8_BadTokenRejected ==
  (last.op = "connect" /\ last.townID \in registry
     /\ last.token \notin Tokens(last.pre.sessions)) =>
    /\ sock[last.socket].status = "closed"
    /\ ~sock[last.socket].handlers
    /\ \A t \in TownIDs : last.socket \notin Registered(t)
    /\ NothingSent
    /\ Snapshot(last.townID) = last.pre

C8_Witness ==
  /\ last.op = "connect"
  /\ last.townID \in registry
  /\ last.token \notin Tokens(last.pre.sessions)
  /\ last.pre.sessions # <<>>
  /\ last.pre.listeners # <<>>
  /\ sock[last.socket].status = "closed"

\* C9: a connection that names a town the registry does not hold is terminated,
\* also when its token is a live token of another town, and no event is sent to
\* anyone.
C9_UnknownTownRejected ==
  (last.op = "connect" /\ last.townID \notin registry) =>
    /\ sock[last.socket].status = "closed"
    /\ ~sock[last.socket].handlers
    /\ \A t \in TownIDs : last.socket \notin Registered(t)
    /\ NothingSent

C9_Witness ==
  /\ last.op = "connect"
  /\ last.townID \notin registry
  /\ \E t \in registry : /\ last.token \in Tokens(sessions[t])
                         /\ listeners[t] # <<>>
  /\ sock[last.socket].status = "closed"

\* C10: a newPlayer event is emitted only by the step in which the video-token
\* fetch of that player's join resolves, and that step delivers it exactly once
\* to each listener registered then and to no other socket.
C10_JoinedAfterFetch ==
  /\ \A s \in Sockets : \A i \in EventsOfType(s, "newPlayer") :
       /\ last.op = "joinResolve"
       /\ sent[s][i].player = last.player
       /\ joins[last.player].state = "resolved"
  /\ last.op = "joinResolve" =>
       \A s \in Sockets :
         sent[s] = IF s \in Registered(last.town)
                     THEN <<PlayerEvent("newPlayer", last.player, location[last.player])>>
                     ELSE <<>>

C10_Witness ==
  /\ last.op = "joinResolve"
  /\ \E s \in Registered(last.town) : Len(sent[s]) = 1
  /\ \E s \in Sockets : /\ sock[s].status = "closed"
                        /\ sock[s].handlers
                        /\ sock[s].town = last.town
                        /\ sent[s] = <<>>

\* C11: when the video-token fetch of a join rejects, the join returns no
\* session and nothing is emitted, and no newPlayer event ever carries a player
\* whose fetch rejected.
C11_FailedFetchNoBroadcast ==
  /\ last.op = "joinReject" =>
       /\ NothingSent
       /\ joins[last.player].state = "rejected"
       /\ PlayerSession(last.player).sessionToken \notin IssuedTokens
  /\ \A s \in Sockets : \A i \in EventsOfType(s, "newPlayer") :
       joins[sent[s][i].player].state # "rejected"

C11_Witness ==
  /\ last.op = "joinReject"
  /\ listeners[last.town] # <<>>
  /\ NothingSent

\* C12: after the video-token fetch of a join rejected, the town holds neither
\* the player nor the session that the join created.
C12_FailedJoinRolledBack ==
  last.op = "joinReject" =>
    /\ last.player \notin Range(players[last.town])
    /\ PlayerSession(last.player).sessionToken \notin Tokens(sessions[last.town])

\* C13: when the fetch of a join resolves after the join's session was
\* removed from the town, no newPlayer event is emitted.
C13_NoBroadcastForDeadSession ==
  (last.op = "joinResolve"
     /\ PlayerSession(last.player).sessionToken \notin Tokens(sessions[last.town])) =>
    NothingSent

\* C14: a 'disconnect' delivered again for a closed connection emits nothing
\* and leaves the town's players, sessions and listeners as they were.
C14_RepeatedDisconnectAbsorbed ==
  last.op = "disconnectAgain" =>
    /\ NothingSent
    /\ Snapshot(last.town) = last.pre

\* the towns that were created and have been deleted
Deleted == (1..created) \ registry

\* listPublicTowns: the towns of the store whose visibility flag is set
listPublicTowns_all == registry

listPublicTowns == {t \in registry : isPubliclyListed[t]}

\* the listing a caller receives: one entry per listed town
getTowns ==
  {[coveyTownID |-> coveyTownID[t], friendlyName |-> friendlyName[t],
    currentOccupancy |-> occupancy(t)] : t \in listPublicTowns}

\* C15: a connection whose disconnect has been processed receives no event
\* afterwards: a handler that runs later emits nothing on it, and in the
\* deleteTown call that closes it townClosing is the last event it gets.
C15_NoEventsAfterDisconnect ==
  \A s \in Sockets : sock[s].status = "closed" =>
    \/ sent[s] = <<>>
    \/ /\ last.op = "deleteTown"
       /\ s \in Range(last.pre.listeners)
       /\ sent[s][Len(sent[s])] = TownClosing
       /\ Cardinality(EventsOfType(s, "townClosing")) = 1

C15_Witness ==
  /\ last.op \in {"playerMovement", "joinResolve", "disconnect"}
  /\ \E s \in Sockets : /\ sock[s].status = "closed"
                        /\ sock[s].handlers
                        /\ sock[s].town = last.town
                        /\ sent[s] = <<>>
                        /\ \E r \in Registered(last.town) : sent[r] # <<>>

\* C16: a deleteTown with the town's password emits townClosing exactly once on
\* every listener the town had and disconnects its socket, and removes the town
\* from the store; a deleted town stays out of the store and out of the public
\* listing, no join starts on it and every connection naming it is terminated.
C16_DeleteTownDestroys ==
  /\ [](/\ (last.op = "deleteTown" /\ last.result) =>
             /\ \A s \in Range(last.pre.listeners) :
                  /\ Cardinality(EventsOfType(s, "townClosing")) = 1
                  /\ sock[s].status \in {"closing", "closed"}
             /\ last.townID \notin registry
        /\ \A t \in Deleted :
             /\ t \notin listPublicTowns
             /\ last.op = "join" => last.town # t
             /\ (last.op = "connect" /\ last.townID = t) =>
                  /\ sock[last.socket].status = "closed"
                  /\ ~sock[last.socket].handlers)
  /\ [][\A t \in Deleted : t \notin registry']_vars

C16_Witness ==
  /\ last.op = "deleteTown"
  /\ last.result
  /\ Len(last.pre.listeners) > 1
  /\ isPubliclyListed[last.townID]
  /\ \A s \in Range(last.pre.listeners) : EventsOfType(s, "townClosing") # {}

\* C17: a deleteTown that names no town of the store, or presents a password
\* other than the town's, returns false, emits nothing and changes nothing.
C17_RefusedDeleteChangesNothing ==
  [][(/\ last'.op = "deleteTown"
      /\ \/ last'.townID \notin registry
         \/ last'.password # townUpdatePassword[last'.townID]) =>
       /\ last'.result = FALSE
       /\ sent' = NoEvents
       /\ UNCHANGED <<registry, created, players, sessions, listeners, location, joins,
                      meta, sock>>]_vars

C17_Witness ==
  /\ last.op = "deleteTown"
  /\ ~last.result
  /\ last.townID \in registry
  /\ last.password \in {townUpdatePassword[t] : t \in registry}
  /\ listeners[last.townID] # <<>>

\* C18: an update with a password other than the town's returns false and
\* leaves the friendly name and the visibility flag as they were.
C18_WrongPasswordUpdatesNothing ==
  (/\ last.op = "updateTown"
   /\ last.townID \in registry
   /\ last.password # townUpdatePassword[last.townID]) =>
    /\ last.result = FALSE
    /\ friendlyName[last.townID] = last.pre.friendlyName
    /\ isPubliclyListed[last.townID] = last.pre.isPubliclyListed

C18_Witness ==
  /\ last.op = "updateTown"
  /\ last.townID \in registry
  /\ last.password # townUpdatePassword[last.townID]
  /\ last.friendlyName \notin {{}, {""}, {friendlyName[last.townID]}}
  /\ last.makePublic = {~isPubliclyListed[last.townID]}
  /\ ~last.result

\* C19: an update with the town's password and the empty friendly name returns
\* false and changes neither the friendly name nor the visibility flag.
C19_EmptyNameUpdatesNothing ==
  (/\ last.op = "updateTown"
   /\ last.townID \in registry
   /\ last.password = townUpdatePassword[last.townID]
   /\ last.friendlyName = {""}) =>
    /\ last.result = FALSE
    /\ friendlyName[last.townID] = last.pre.friendlyName
    /\ isPubliclyListed[last.townID] = last.pre.isPubliclyListed

C19_Witness ==
  /\ last.op = "updateTown"
  /\ last.townID \in registry
  /\ last.password = townUpdatePassword[last.townID]
  /\ last.friendlyName = {""}
  /\ last.makePublic = {~isPubliclyListed[last.townID]}
  /\ ~last.result

\* C20: an update with the town's password and no empty name returns true,
\* sets each field that is supplied to the supplied value and keeps each field
\* that is not supplied.
C20_UpdateAppliesSuppliedFields ==
  (/\ last.op = "updateTown"
   /\ last.townID \in registry
   /\ last.password = townUpdatePassword[last.townID]
   /\ last.friendlyName # {""}) =>
    /\ last.result = TRUE
    /\ {friendlyName[last.townID]} =
         IF last.friendlyName = {} THEN {last.pre.friendlyName} ELSE last.friendlyName
    /\ {isPubliclyListed[last.townID]} =
         IF last.makePublic = {} THEN {last.pre.isPubliclyListed} ELSE last.makePublic

C20_Witness ==
  /\ last.op = "updateTown"
  /\ last.townID \in registry
  /\ last.result
  /\ last.friendlyName = {}
  /\ last.makePublic = {~last.pre.isPubliclyListed}
  /\ friendlyName[last.townID] = last.pre.friendlyName
  /\ isPubliclyListed[last.townID] # last.pre.isPubliclyListed

\* C21: the listing has an entry for a town exactly when the town is in the
\* store and its visibility flag is set, every entry carries the town's current
\* friendly name, and after a successful update that supplies a visibility the
\* town is listed exactly when that visibility is true.
C21_ListingReflectsVisibility ==
  /\ \A t \in 1..created :
       (t \in registry /\ isPubliclyListed[t]) <=>
         (\E e \in getTowns : e.coveyTownID = coveyTownID[t])
  /\ \A t \in registry : \A e \in getTowns :
       e.coveyTownID = coveyTownID[t] => e.friendlyName = friendlyName[t]
  /\ (last.op = "updateTown" /\ last.townID \in registry /\ last.result
        /\ last.makePublic # {}) =>
       ((\E e \in getTowns : e.coveyTownID = coveyTownID[last.townID])
          <=> last.makePublic = {TRUE})

C21_Witness ==
  /\ last.op = "updateTown"
  /\ last.result
  /\ last.makePublic = {FALSE}
  /\ last.pre.isPubliclyListed
  /\ last.friendlyName \notin {{}, {last.pre.friendlyName}}
  /\ getTowns # {}
  /\ \A e \in getTowns : e.coveyTownID # coveyTownID[last.townID]

\* C22: any two controllers the store holds at the same time have different
\* town IDs, whatever their friendly names; a generated ID that a live town
\* has is not registered.
C22_LiveTownIDsDistinct ==
  /\ \A t1, t2 \in registry : t1 # t2 => coveyTownID[t1] # coveyTownID[t2]
  /\ last.op = "createTownCollision" =>
       /\ last.townID \in LiveIDs
       /\ Cardinality(registry) = Cardinality(LiveIDs)

C22_Witness ==
  /\ last.op = "createTownCollision"
  /\ Cardinality(registry) > 1
  /\ \A t1, t2 \in registry : friendlyName[t1] = friendlyName[t2]

\* C23: every join has made exactly one getTokenForTown call, with the town's
\* ID and the new player's ID as arguments, and the session of a join that
\* returned carries the token the video client provided for that call.
C23_OneTokenRequestPerJoin ==
  \A p \in PlayerIDs : joins[p].state # "none" =>
    /\ joins[p].requests = <<TokenRequest(coveyTownID[joins[p].town], p)>>
    /\ joins[p].state = "resolved" =>
         joins[p].videoToken = getTokenForTown(TokenRequest(coveyTownID[joins[p].town], p))

C23_Witness ==
  /\ last.op = "joinResolve"
  /\ joins[last.player].state = "resolved"
  /\ coveyTownID[last.town] # last.player
  /\ coveyTownID[last.town] # last.town
  /\ joins[last.player].videoToken = <<coveyTownID[last.town], last.player>>

\* C24: in every town, the player of every session in _sessions is in _players.
C24_SessionPlayerPresent ==
  \A t \in TownIDs : \A i \in DOMAIN sessions[t] :
    sessions[t][i].player \in Range(players[t])

C24_Witness ==
  /\ last.op = "disconnect"
  /\ sessions[last.town] # <<>>
  /\ Len(last.pre.sessions) > Len(sessions[last.town])
  /\ \A i \in DOMAIN sessions[last.town] :
       sessions[last.town][i].player \in Range(players[last.town])

\* what a client whose connection was refused can observe: the socket is
\* disconnected, nothing was emitted on it, nothing was registered for it
Refused(s) ==
  /\ sock[s] = [status |-> "closed", town |-> NoTown, session |-> NoSession, handlers |-> FALSE]
  /\ sent[s] = <<>>
  /\ \A t \in TownIDs : s \notin Registered(t)

\* C25: a connection that names a town the store does not hold and a
\* connection that presents a token of no session of the town it names end in
\* the same observable outcome: the socket is disconnected and no event was
\* emitted on it.
C25_AuthFailuresAlike ==
  /\ (last.op = "connect" /\ last.town = NoTown) => Refused(last.socket)
  /\ (last.op = "connect" /\ last.town # NoTown
        /\ last.token \notin Tokens(last.pre.sessions)) => Refused(last.socket)

C25_Witness ==
  /\ last.op = "connect"
  /\ last.town # NoTown
  /\ last.token \notin Tokens(last.pre.sessions)
  /\ last.token \in IssuedTokens
  /\ last.pre.listeners # <<>>
  /\ Refused(last.socket)

\* C26: a movement message on an authenticated connection sets the location of
\* the connection's session player to the received location and changes no
\* other player's location and none of the town's players, sessions and
\* listeners.
C26_MovementFrame ==
  [][last'.op = "playerMovement" =>
       /\ last'.player = sock[last'.socket].session.player
       /\ location' = [location EXCEPT ![last'.player] = last'.loc]
       /\ UNCHANGED <<players, sessions, listeners>>]_vars

C26_Witness ==
  /\ last.op = "playerMovement"
  /\ location[last.player] = last.loc
  /\ \E q \in Range(players[last.town]) : location[q] # last.loc

\* the players whose addPlayer call is waiting for the video token
PendingPlayers == {p \in PlayerIDs : joins[p].state = "pending"}

\* no newPlayer event carrying p is among the events just emitted
NoJoinedEventFor(p) ==
  \A s \in Sockets : \A i \in EventsOfType(s, "newPlayer") : sent[s][i].player # p

\* C27 as stated: while a join's video token is pending, the new player is in
\* _players, its session is in _sessions, and no newPlayer event carrying the
\* player has been emitted.
C27_PendingJoinIsMember ==
  \A p \in PendingPlayers :
    /\ p \in Range(players[joins[p].town])
    /\ PlayerSession(p).sessionToken \in Tokens(sessions[joins[p].town])
    /\ NoJoinedEventFor(p)

\* C27 amended: while a join's video token is pending, no newPlayer event
\* carrying the player has been emitted, and the player is in _players and its
\* session in _sessions (so that connect finds the session for its token)
\* exactly as long as no connection authenticated with that token has
\* disconnected.
C27_PendingJoinMemberUntilDisconnect ==
  \A p \in PendingPlayers :
    /\ NoJoinedEventFor(p)
    /\ PlayerSession(p).sessionToken \notin ConsumedTokens =>
         /\ p \in Range(players[joins[p].town])
         /\ PlayerSession(p).sessionToken \in Tokens(sessions[joins[p].town])
         /\ findSession(joins[p].town, PlayerSession(p).sessionToken) # {}
    /\ PlayerSession(p).sessionToken \in ConsumedTokens =>
         /\ p \notin Range(players[joins[p].town])
         /\ PlayerSession(p).sessionToken \notin Tokens(sessions[joins[p].town])

C27_Witness ==
  /\ last.op = "playerMovement"
  /\ last.player \in PendingPlayers
  /\ last.player \in Range(players[last.town])
  /\ \E s \in Registered(last.town) :
       /\ sock[s].session.player # last.player
       /\ sent[s] = <<PlayerEvent("playerMoved", last.player, last.loc)>>

\* C28: a join whose video token resolves does not return a session when its
\* town has been deleted in the meantime: no join resolves into a session of
\* a town that is not in the store.
C28_NoJoinOnDeletedTown ==
  last.op = "joinResolve" =>
    \/ last.town \in registry
    \/ PlayerSession(last.player).sessionToken \notin IssuedTokens

\* C29: once townClosing has been emitted on a socket and the socket has been
\* disconnected, nothing more is emitted on it: within the deleteTown call
\* townClosing is the last event on the socket, and every later handler emits
\* nothing on it.
C29_TownClosingIsLast ==
  \A s \in Sockets :
    (/\ sock[s].handlers
     /\ sock[s].status \in {"closing", "closed"}
     /\ sock[s].town \in Deleted) =>
      \/ sent[s] = <<>>
      \/ /\ last.op = "deleteTown"
         /\ last.townID = sock[s].town
         /\ sent[s][Len(sent[s])] = TownClosing

\* the playerMoved and playerDisconnect events just emitted, on any socket
MovedOrGone ==
  UNION {{sent[s][i] : i \in EventsOfType(s, "playerMoved") \cup
                              EventsOfType(s, "playerDisconnect")} : s \in Sockets}

\* C30 as stated: no playerMoved or playerDisconnect event carries a player
\* whose join has not yet emitted its newPlayer broadcast.
C30_NoEventBeforeJoined ==
  \A e \in MovedOrGone : joins[e.player].state = "resolved"

\* C30 amended: a playerMoved or playerDisconnect event carries a player whose
\* join has not emitted its newPlayer broadcast only when it is emitted by a
\* handler of a connection that authenticated with that player's session
\* token although no join had returned the token; connections that present
\* returned tokens produce no such event before the broadcast.
C30_EarlyEventsOnlyFromUnreturnedToken ==
  \A e \in MovedOrGone : joins[e.player].state # "resolved" =>
    /\ last.op \in {"playerMovement", "disconnect"}
    /\ last.player = e.player
    /\ sock[last.socket].session = PlayerSession(e.player)
    /\ last.token = PlayerSession(e.player).sessionToken
    /\ last.token \notin IssuedTokens

C30_Witness ==
  /\ last.op = "disconnect"
  /\ joins[last.player].state = "pending"
  /\ \E s \in Registered(last.town) :
       /\ sock[s].session.player # last.player
       /\ joins[sock[s].session.player].state = "resolved"
       /\ sent[s] = <<PlayerEvent("playerDisconnect", last.player, location[last.player])>>

====
